---- MODULE Spec2Model ----
(***************************************************************************)
(* Model of auklet/base.py.                                                *)
(*                                                                         *)
(* The delivery core of the Auklet agent (Client.produce,                  *)
(* Client._produce_from_local, Client._write_to_local): every caller       *)
(* thread has a call stack of frames of produce() and                      *)
(* _produce_from_local(); the spool file "tmp/local.txt" is a sequence of  *)
(* characters.  The replay pass calls produce() again for every line it    *)
(* read, so the stack nests: produce -> _produce_from_local -> produce ... *)
(*                                                                         *)
(* Specifications:                                                         *)
(*   Spec          produce() calls of one thread on a constructed Client   *)
(*   SpecBoot      Client.__init__ step by step, then Spec's calls         *)
(*   SpecDisk      Spec on a disk that fills up while a line is written    *)
(*   SpecConc      produce() calls of two threads, interleaved             *)
(*   SpecRunnable  Runnable.start() and Runnable.stop()                    *)
(*   SpecDeferral  one "with deferral() as defer:" block                   *)
(***************************************************************************)
EXTENDS Integers, Sequences, FiniteSets, TLC

(* ---------------------------- bounds ----------------------------------- *)

\* Number of produce() calls the host application makes.
MaxCalls == 3

\* Number of produce() calls two threads of the host make between them.
MaxConcCalls == 2

\* Number of start() and stop() calls made on the Runnable.
MaxOps == 5

\* Number of calls registered through defer(...) in one deferral() block.
MaxDefer == 4

\* Depth of the Python call stack (frames of produce and _produce_from_local)
\* at which the interpreter raises RecursionError ("maximum recursion depth
\* exceeded"); stands for sys.getrecursionlimit().
RecursionLimit == 3

(* ---------------------------- data ------------------------------------- *)

\* Caller threads the model knows; `callers` says which of them make calls.
AllCallers == {1, 2}

\* Client.producer_types: logical channel -> broker topic.
producer_types ==
  [monitoring |-> "prof_topic", event |-> "event_topic", log |-> "log_topic"]

\* A record (the dict handed to produce): always an "id", and a "stackTrace"
\* key exactly for event-shaped records.
MkData(id, st) ==
  IF st THEN [id |-> id, stackTrace |-> "tb"] ELSE [id |-> id]

\* What the host passes to produce(): the record's shape and the data_type.
\* Metric records go out on "monitoring", event records on "event", and
\* records of either shape on "log".
Inputs ==
  { [st |-> FALSE, type |-> "monitoring"], [st |-> TRUE, type |-> "event"],
    [st |-> FALSE, type |-> "log"], [st |-> TRUE, type |-> "log"] }

\* The keys of a dict in the order json.dumps writes them here.
KeyOrder == <<"id", "stackTrace">>

\* The characters of the spool file besides the members of a dict.
LBrace == <<"{">>
RBrace == <<"}">>
NewLine == <<"\n">>
Nul == <<"NUL">>

\* json.dumps(data): the text of the dict as a sequence of characters; an
\* opening brace, one character per key/value member, a closing brace.
JsonDumps(data) ==
  LET has(i) == KeyOrder[i] \in DOMAIN data
      F[i \in 0..Len(KeyOrder)] ==
        IF i = 0 THEN <<LBrace>>
        ELSE IF has(i) THEN Append(F[i-1], <<KeyOrder[i], data[KeyOrder[i]]>>)
        ELSE F[i-1]
  IN Append(F[Len(KeyOrder)], RBrace)

\* Whether json.loads(line) returns a dict (it raises ValueError otherwise):
\* the line is one brace-enclosed run of members.
IsJson(line) ==
  /\ Len(line) >= 2
  /\ line[1] = LBrace /\ line[Len(line)] = RBrace
  /\ \A i \in 2..(Len(line) - 1) : Len(line[i]) = 2

\* json.loads(line): the dict of the members of the line.
JsonLoads(line) ==
  LET at == 2..(Len(line) - 1)
  IN [k \in {line[i][1] : i \in at} |->
        (CHOOSE v \in {line[i][2] : i \in {j \in at : line[j][1] = k}} : TRUE)]

\* The lines of text from its i-th character on, after the lines `done` and
\* the begun line `cur`.
RECURSIVE SplitFrom(_, _, _, _)
SplitFrom(text, i, done, cur) ==
  IF i > Len(text) THEN (IF cur = <<>> THEN done ELSE Append(done, cur))
  ELSE IF text[i] = NewLine THEN SplitFrom(text, i + 1, Append(done, cur), <<>>)
  ELSE SplitFrom(text, i + 1, done, Append(cur, text[i]))

\* str.splitlines() of the text of the file: the runs of characters between
\* newlines; a text that ends with a newline has no empty last line.
SplitLines(text) == SplitFrom(text, 1, <<>>, <<>>)

\* What offline.write(json.dumps(data)); offline.write("\n") adds to a file.
LineText(data) == Append(JsonDumps(data), NewLine)

\* Mutant of ReplayType: the test on 'stackTrace' is inverted.
ReplayType_Inverted(loaded) ==
  IF "stackTrace" \in DOMAIN loaded THEN "monitoring" ELSE "event"

\* Mutant of ReplayType: every line is replayed with the default data_type.
ReplayType_Default(loaded) == "monitoring"

\* The data_type _produce_from_local passes to produce() for a loaded line:
\* "event" if it has a 'stackTrace' key, the default "monitoring" otherwise.
ReplayType(loaded) ==
  IF "stackTrace" \in DOMAIN loaded THEN "event" ELSE "monitoring"

\* Mutant of Truncate: the file is emptied (a seek(0) before truncate()).
Truncate_ToEmpty(content, pos) == <<>>

\* n NUL bytes.
Nuls(n) == [i \in 1..n |-> Nul]

\* offline.truncate() with no argument: the file is resized to the current
\* position of the handle, which after read() is the end of what was read:
\* a longer file is cut there, a shorter one is filled up with NUL bytes.
Truncate(content, pos) ==
  IF pos <= Len(content) THEN SubSeq(content, 1, pos)
  ELSE content \o Nuls(pos - Len(content))

(* ---------------------------- state ------------------------------------ *)

VARIABLES
  callers,    \* the threads of the host that call produce()
  producer,   \* self.producer: "None" or "KafkaProducer"
  exists,     \* whether the spool file tmp/local.txt exists
  spool,      \* the text of the spool file, a sequence of characters
  stack,      \* per thread: the frames of the calls in progress, outermost first
  ncalls,     \* number of produce() calls the host has made
  \* history of the host's current (or last) produce() call, per thread
  arg,        \* the record and the data_type the host passed
  live,       \* outcome of the call's own send: "none" | "ok" | "fail"
  sends,      \* the send attempts made: record, topic, outcome, replayed or live
  order,      \* ids of the records a send was attempted for, by first attempt
  startSpool, \* the spool content when the call began
  result,     \* "none" | "running" | "returned" | "raised"
  pass,       \* the replay pass the call's own send triggers:
              \* "none" | "running" | "ended" (it truncated and returned)
  \* history of the whole run
  produced,   \* the records the host passed to produce(): id and data_type
  delivered,  \* ids of the records sent successfully at least once
  unwritten,  \* ids of the records whose append to the spool failed (IOError)
  startExists,\* per thread: whether the spool file existed when the call began
  \* Client.__init__
  boot,       \* the step construction is at, or "done" | "raised"
  bootFailed, \* the step of construction that failed, or "none"
  \* Runnable
  rkind,      \* the generator function run(): how often it yields, and
              \* whether its first yield has a value
  running,    \* self._running: NoGen (None) or the generator and its state
  rlog,       \* the parts of run() executed so far, in order
  rlast,      \* the last start() or stop() call and how it ended
  rops,       \* number of start() and stop() calls made
  \* deferral()
  dphase,     \* "idle" | "body" | "unwinding" | "left"
  deferred,   \* the list `deferred`, last registered last
  executed,   \* the deferred calls executed so far, in order
  dcount,     \* number of calls registered so far
  dexit       \* how the block was left, and what the with statement raises

\* The state Client.produce() works on.
coreVars == <<callers, producer, exists, spool, stack, ncalls,
              arg, live, sends, order, startSpool, result, pass,
              produced, delivered, unwritten, startExists>>

bootVars == <<boot, bootFailed>>
runVars == <<rkind, running, rlog, rlast, rops>>
defVars == <<dphase, deferred, executed, dcount, dexit>>

\* What no step of Client.produce() touches.
otherVars == <<bootVars, runVars, defVars>>

vars == <<coreVars, bootVars, runVars, defVars>>

NoData == [id |-> 0]

\* A frame of produce(data, data_type); pc is "enter" (line 147), "replay"
\* (line 151) or "write" (line 153).
ProduceFrame(data, type) ==
  [fn |-> "produce", pc |-> "enter", data |-> data, type |-> type,
   lines |-> <<>>, idx |-> 0, pos |-> 0]

\* A frame of _produce_from_local() inside its for loop: the lines of the
\* text read, the number of lines already handed to produce(), and the
\* handle's position, the end of the text read.
ReplayFrame(text) ==
  [fn |-> "replay", pc |-> "loop", data |-> NoData, type |-> "monitoring",
   lines |-> SplitLines(text), idx |-> 0, pos |-> Len(text)]

Top(t) == stack[t][Len(stack[t])]
Pop(s, n) == SubSeq(s, 1, Len(s) - n)
SetTop(s, f) == [s EXCEPT ![Len(s)] = f]

Idle(t) == stack[t] = <<>>

\* The number of produce() calls the host makes in all.
CallBound == IF callers = AllCallers THEN MaxConcCalls ELSE MaxCalls

\* A spool left behind by an earlier run of the process.
InitSpools == {<<>>, LineText(MkData(0, FALSE))}

\* The spool file before any call: missing, or as an earlier run left it.
InitFile ==
  \E e \in BOOLEAN, s \in InitSpools :
    /\ exists = e
    /\ spool = IF e THEN s ELSE <<>>

\* No produce() call has been made.
InitCalls ==
  /\ stack = [t \in AllCallers |-> <<>>]
  /\ ncalls = 0
  /\ arg = [t \in AllCallers |-> [data |-> NoData, type |-> "monitoring"]]
  /\ live = [t \in AllCallers |-> "none"]
  /\ sends = [t \in AllCallers |-> {}]
  /\ order = [t \in AllCallers |-> <<>>]
  /\ startSpool = [t \in AllCallers |-> <<>>]
  /\ result = [t \in AllCallers |-> "none"]
  /\ pass = [t \in AllCallers |-> "none"]
  /\ startExists = [t \in AllCallers |-> FALSE]
  /\ produced = {}
  /\ delivered = {}
  /\ unwritten = {}

\* self._running is None.
NoGen == [state |-> "none", pos |-> 0]

\* A generator function run() that yields once, without a value.
Canonical == [yields |-> 1, value |-> FALSE]

\* No Runnable is in use.
RunIdle ==
  /\ rkind = Canonical
  /\ running = NoGen
  /\ rlog = <<>>
  /\ rlast = [op |-> "none", outcome |-> "none", wasRunning |-> FALSE, ran |-> 0]
  /\ rops = 0

\* No deferral() block is in use.
DefIdle ==
  /\ dphase = "idle"
  /\ deferred = <<>>
  /\ executed = <<>>
  /\ dcount = 0
  /\ dexit = [body |-> "none", raised |-> "none"]

\* A constructed Client used by one thread: the producer was built, or its
\* construction raised KafkaError and self.producer is still None.
Init ==
  /\ callers = {1}
  /\ \/ producer = "KafkaProducer" /\ bootFailed = "none"
     \/ producer = "None" /\ bootFailed = "kafka"
  /\ boot = "done"
  /\ InitFile
  /\ InitCalls
  /\ RunIdle
  /\ DefIdle

(* ---------------------------- actions ---------------------------------- *)

\* The host calls produce(data, data_type) of the constructed Client with a
\* fresh record.
Produce(t) ==
  /\ boot = "done"
  /\ t \in callers
  /\ Idle(t)
  /\ ncalls < CallBound
  /\ \E in \in Inputs :
       LET data == MkData(ncalls + 1, in.st)
       IN /\ stack' = [stack EXCEPT ![t] = <<ProduceFrame(data, in.type)>>]
          /\ arg' = [arg EXCEPT ![t] = [data |-> data, type |-> in.type]]
  /\ ncalls' = ncalls + 1
  /\ live' = [live EXCEPT ![t] = "none"]
  /\ sends' = [sends EXCEPT ![t] = {}]
  /\ order' = [order EXCEPT ![t] = <<>>]
  /\ startSpool' = [startSpool EXCEPT ![t] = spool]
  /\ startExists' = [startExists EXCEPT ![t] = exists]
  /\ result' = [result EXCEPT ![t] = "running"]
  /\ pass' = [pass EXCEPT ![t] = "none"]
  /\ produced' = produced \cup {[id |-> ncalls + 1, type |-> arg'[t].type]}
  /\ UNCHANGED <<callers, producer, exists, spool, delivered, unwritten>>
  /\ UNCHANGED otherVars

\* A frame returns: its caller goes on, or the host's call has returned.
Return(t, n) ==
  /\ stack' = [stack EXCEPT ![t] = Pop(stack[t], n)]
  /\ result' = [result EXCEPT ![t] =
                  IF Len(stack[t]) = n THEN "returned" ELSE result[t]]

\* Mutant of ProduceNoProducer: without a producer the record is spooled.
ProduceNoProducer_Spools(t) ==
  /\ ~Idle(t)
  /\ Top(t).fn = "produce" /\ Top(t).pc = "enter"
  /\ producer = "None"
  /\ spool' = spool \o LineText(Top(t).data)
  /\ exists' = TRUE
  /\ Return(t, 1)
  /\ UNCHANGED <<callers, producer, ncalls, arg, live, sends, order,
                 startSpool, pass, produced, delivered, unwritten,
                 startExists>>
  /\ UNCHANGED otherVars

\* produce(), line 147: self.producer is None, nothing is done.
ProduceNoProducer(t) ==
  /\ ~Idle(t)
  /\ Top(t).fn = "produce" /\ Top(t).pc = "enter"
  /\ producer = "None"
  /\ Return(t, 1)
  /\ UNCHANGED <<callers, producer, exists, spool, ncalls, arg, live, sends,
                 order, startSpool, pass, produced, delivered, unwritten,
                 startExists>>
  /\ UNCHANGED otherVars

\* The history of one send attempt by the top frame of t.
Attempt(t, ok) ==
  LET f == Top(t)
      seen == {order[t][i] : i \in 1..Len(order[t])}
  IN /\ sends' = [sends EXCEPT ![t] = sends[t] \cup
                    {[data |-> f.data, topic |-> producer_types[f.type],
                      ok |-> ok, replay |-> Len(stack[t]) > 1]}]
     /\ order' = [order EXCEPT ![t] =
                    IF f.data.id \in seen THEN order[t]
                    ELSE Append(order[t], f.data.id)]
     /\ live' = [live EXCEPT ![t] =
                   IF Len(stack[t]) > 1 THEN live[t]
                   ELSE IF ok THEN "ok" ELSE "fail"]

\* produce(), lines 149-151: producer.send succeeds; next is the replay pass.
SendOk(t) ==
  /\ ~Idle(t)
  /\ Top(t).fn = "produce" /\ Top(t).pc = "enter"
  /\ producer # "None"
  /\ Attempt(t, TRUE)
  /\ delivered' = delivered \cup {Top(t).data.id}
  /\ stack' = [stack EXCEPT ![t] = SetTop(stack[t], [Top(t) EXCEPT !.pc = "replay"])]
  /\ UNCHANGED <<callers, producer, exists, spool, ncalls, arg, startSpool,
                 result, pass, produced, unwritten, startExists>>
  /\ UNCHANGED otherVars

\* Mutant of SendFail: a failed send takes the channel down.
SendFail_Disconnects(t) ==
  /\ ~Idle(t)
  /\ Top(t).fn = "produce" /\ Top(t).pc = "enter"
  /\ producer # "None"
  /\ Attempt(t, FALSE)
  /\ producer' = "None"
  /\ stack' = [stack EXCEPT ![t] = SetTop(stack[t], [Top(t) EXCEPT !.pc = "write"])]
  /\ UNCHANGED <<callers, exists, spool, ncalls, arg, startSpool,
                 result, pass, produced, delivered, unwritten, startExists>>
  /\ UNCHANGED otherVars

\* produce(), lines 149, 152: producer.send raises KafkaError; next is
\* _write_to_local(data).
SendFail(t) ==
  /\ ~Idle(t)
  /\ Top(t).fn = "produce" /\ Top(t).pc = "enter"
  /\ producer # "None"
  /\ Attempt(t, FALSE)
  /\ stack' = [stack EXCEPT ![t] = SetTop(stack[t], [Top(t) EXCEPT !.pc = "write"])]
  /\ UNCHANGED <<callers, producer, exists, spool, ncalls, arg, startSpool,
                 result, pass, produced, delivered, unwritten, startExists>>
  /\ UNCHANGED otherVars

\* Mutant of WriteLocal: the file is opened "w", not "a".
WriteLocal_Overwrite(t) ==
  /\ ~Idle(t)
  /\ Top(t).fn = "produce" /\ Top(t).pc = "write"
  /\ spool' = LineText(Top(t).data)
  /\ exists' = TRUE
  /\ Return(t, 1)
  /\ UNCHANGED <<callers, producer, ncalls, arg, live, sends, order,
                 startSpool, pass, produced, delivered, unwritten,
                 startExists>>
  /\ UNCHANGED otherVars

\* _write_to_local(data), lines 112-114: the line json.dumps(data) is
\* appended to the spool file (open mode "a" creates a missing file); then
\* produce() returns.
WriteLocal(t) ==
  /\ ~Idle(t)
  /\ Top(t).fn = "produce" /\ Top(t).pc = "write"
  /\ spool' = spool \o LineText(Top(t).data)
  /\ exists' = TRUE
  /\ Return(t, 1)
  /\ UNCHANGED <<callers, producer, ncalls, arg, live, sends, order,
                 startSpool, pass, produced, delivered, unwritten,
                 startExists>>
  /\ UNCHANGED otherVars

\* _write_to_local(data), lines 115-117: the file cannot be opened for
\* appending (IOError); False is returned and then produce() returns.
WriteLocalIOError(t) ==
  /\ ~Idle(t)
  /\ Top(t).fn = "produce" /\ Top(t).pc = "write"
  /\ unwritten' = unwritten \cup {Top(t).data.id}
  /\ Return(t, 1)
  /\ UNCHANGED <<callers, producer, exists, spool, ncalls, arg, live, sends,
                 order, startSpool, pass, produced, delivered, startExists>>
  /\ UNCHANGED otherVars

\* Whether one more Python frame fits on the stack of t.
CanCall(t) == Len(stack[t]) < RecursionLimit

\* produce() line 151 and _produce_from_local() lines 121-122: the spool is
\* opened 'r+' and read to its end.
ReplayOpen(t) ==
  /\ ~Idle(t)
  /\ Top(t).fn = "produce" /\ Top(t).pc = "replay"
  /\ CanCall(t)
  /\ exists
  /\ stack' = [stack EXCEPT ![t] = Append(stack[t], ReplayFrame(spool))]
  /\ pass' = [pass EXCEPT ![t] = IF Len(stack[t]) = 1 THEN "running" ELSE pass[t]]
  /\ UNCHANGED <<callers, producer, exists, spool, ncalls, arg, live, sends,
                 order, startSpool, result, produced, delivered, unwritten,
                 startExists>>
  /\ UNCHANGED otherVars

\* Mutant of ReplayOpenIOError: the failed open leaves a new, empty file (an
\* open mode that creates the file).
ReplayOpenIOError_Creates(t) ==
  /\ ~Idle(t)
  /\ Top(t).fn = "produce" /\ Top(t).pc = "replay"
  /\ CanCall(t)
  /\ exists' = TRUE
  /\ Return(t, 1)
  /\ UNCHANGED <<callers, producer, spool, ncalls, arg, live, sends,
                 order, startSpool, pass, produced, delivered, unwritten,
                 startExists>>
  /\ UNCHANGED otherVars

\* _produce_from_local() lines 130-132: the spool is missing or unreadable
\* (IOError); False is returned and then produce() returns.
ReplayOpenIOError(t) ==
  /\ ~Idle(t)
  /\ Top(t).fn = "produce" /\ Top(t).pc = "replay"
  /\ CanCall(t)
  /\ Return(t, 1)
  /\ UNCHANGED <<callers, producer, exists, spool, ncalls, arg, live, sends,
                 order, startSpool, pass, produced, delivered, unwritten,
                 startExists>>
  /\ UNCHANGED otherVars

\* _produce_from_local() lines 123-128: the next line read is parsed and
\* handed to self.produce() with the data_type of its shape.
ReplayNext(t) ==
  /\ ~Idle(t)
  /\ Top(t).fn = "replay" /\ Top(t).idx < Len(Top(t).lines)
  /\ IsJson(Top(t).lines[Top(t).idx + 1])
  /\ CanCall(t)
  /\ LET f == Top(t)
         loaded == JsonLoads(f.lines[f.idx + 1])
     IN stack' = [stack EXCEPT ![t] =
                    Append(SetTop(stack[t], [f EXCEPT !.idx = f.idx + 1]),
                           ProduceFrame(loaded, ReplayType(loaded)))]
  /\ UNCHANGED <<callers, producer, exists, spool, ncalls, arg, live, sends,
                 order, startSpool, result, pass, produced, delivered,
                 unwritten, startExists>>
  /\ UNCHANGED otherVars

\* _produce_from_local() line 129: after the loop the file is truncated at
\* the handle's position and closed; the pass and the produce() that ran it
\* return.
ReplayTruncate(t) ==
  /\ ~Idle(t)
  /\ Top(t).fn = "replay" /\ Top(t).idx = Len(Top(t).lines)
  /\ spool' = Truncate(spool, Top(t).pos)
  /\ pass' = [pass EXCEPT ![t] = IF Len(stack[t]) = 2 THEN "ended" ELSE pass[t]]
  /\ Return(t, 2)
  /\ UNCHANGED <<callers, producer, exists, ncalls, arg, live, sends, order,
                 startSpool, produced, delivered, unwritten, startExists>>
  /\ UNCHANGED otherVars

\* The top frame is about to call _produce_from_local() (line 151) or, a
\* line having been parsed, self.produce() (lines 126, 128).
AboutToCall(t) ==
  IF Top(t).fn = "produce" THEN Top(t).pc = "replay"
  ELSE /\ Top(t).idx < Len(Top(t).lines)
       /\ IsJson(Top(t).lines[Top(t).idx + 1])

\* The call exceeds the interpreter's recursion limit: RecursionError is
\* raised.  No except clause on the stack catches it (they name KafkaError
\* and IOError): every frame is unwound, the with blocks close their files
\* without truncating, and the host's produce() call raises.
RaiseRecursionError(t) ==
  /\ ~Idle(t)
  /\ AboutToCall(t)
  /\ ~CanCall(t)
  /\ stack' = [stack EXCEPT ![t] = <<>>]
  /\ result' = [result EXCEPT ![t] = "raised"]
  /\ UNCHANGED <<callers, producer, exists, spool, ncalls, arg, live, sends,
                 order, startSpool, pass, produced, delivered, unwritten,
                 startExists>>
  /\ UNCHANGED otherVars

Next ==
  \E t \in AllCallers :
    \/ Produce(t)
    \/ ProduceNoProducer(t)
    \/ SendOk(t)
    \/ SendFail(t)
    \/ WriteLocal(t)
    \/ WriteLocalIOError(t)
    \/ ReplayOpen(t)
    \/ ReplayOpenIOError(t)
    \/ ReplayNext(t)
    \/ ReplayTruncate(t)
    \/ RaiseRecursionError(t)

Spec == Init /\ [][Next]_vars

(* ---------------------------- Client.__init__ -------------------------- *)

\* The steps of Client.__init__ that can fail, in the order it takes them.
BootSteps == <<"brokers", "mkdir", "commit", "certs", "kafka">>

\* The step after step s ("done" after the last).
BootAfter(s) ==
  LET i == CHOOSE j \in 1..Len(BootSteps) : BootSteps[j] = s
  IN IF i = Len(BootSteps) THEN "done" ELSE BootSteps[i + 1]

\* An exception leaves __init__: the host gets no Client.
BootRaise(s) ==
  /\ boot' = "raised"
  /\ bootFailed' = s
  /\ UNCHANGED producer

\* __init__ line 50, _get_kafka_brokers() lines 82-91: the config request is
\* answered and parsed, or urlopen / json.loads / the key lookups raise.  The
\* call is in no try block: the exception leaves __init__.
BootBrokers ==
  /\ boot = "brokers"
  /\ \/ boot' = BootAfter("brokers") /\ UNCHANGED <<bootFailed, producer>>
     \/ BootRaise("brokers")
  /\ UNCHANGED <<callers, exists, spool, stack, ncalls, arg, live, sends,
                 order, startSpool, result, pass, produced, delivered,
                 unwritten, startExists, runVars, defVars>>

\* __init__ line 52, _create_file() lines 70-76: the directory "tmp" is there
\* or is made (the spool file itself is not created); an OSError other than
\* EEXIST is raised again.
BootCreateFile ==
  /\ boot = "mkdir"
  /\ \/ boot' = BootAfter("mkdir") /\ UNCHANGED <<bootFailed, producer>>
     \/ BootRaise("mkdir")
  /\ UNCHANGED <<callers, exists, spool, stack, ncalls, arg, live, sends,
                 order, startSpool, result, pass, produced, delivered,
                 unwritten, startExists, runVars, defVars>>

\* __init__ line 53, get_commit_hash() lines 232-238: ".auklet/version" is
\* read and a pair is returned; on IOError the one string "" is returned and
\* unpacking it into two names raises ValueError.
BootCommitHash ==
  /\ boot = "commit"
  /\ \/ boot' = BootAfter("commit") /\ UNCHANGED <<bootFailed, producer>>
     \/ BootRaise("commit")
  /\ UNCHANGED <<callers, exists, spool, stack, ncalls, arg, live, sends,
                 order, startSpool, result, pass, produced, delivered,
                 unwritten, startExists, runVars, defVars>>

\* __init__ line 54, _get_kafka_certs() lines 94-108: the archive of
\* certificates is fetched and unpacked; on HTTPError the request is made
\* once more without the token (line 101).  Every other error, and every
\* error of the second request, leaves __init__.
BootCerts ==
  /\ boot \in {"certs", "certs_redirect"}
  /\ \/ boot' = BootAfter("certs") /\ UNCHANGED <<bootFailed, producer>>
     \/ /\ boot = "certs"
        /\ boot' = "certs_redirect"
        /\ UNCHANGED <<bootFailed, producer>>
     \/ BootRaise("certs")
  /\ UNCHANGED <<callers, exists, spool, stack, ncalls, arg, live, sends,
                 order, startSpool, result, pass, produced, delivered,
                 unwritten, startExists, runVars, defVars>>

\* __init__ lines 55-67: KafkaProducer(...) is built and kept, or raises
\* KafkaError, which is passed over: self.producer stays None.
BootKafka ==
  /\ boot = "kafka"
  /\ boot' = BootAfter("kafka")
  /\ \/ producer' = "KafkaProducer" /\ UNCHANGED bootFailed
     \/ bootFailed' = "kafka" /\ UNCHANGED producer
  /\ UNCHANGED <<callers, exists, spool, stack, ncalls, arg, live, sends,
                 order, startSpool, result, pass, produced, delivered,
                 unwritten, startExists, runVars, defVars>>

\* Client(...) is about to be called: self.producer = None (line 49).
InitBoot ==
  /\ callers = {1}
  /\ producer = "None"
  /\ boot = BootSteps[1]
  /\ bootFailed = "none"
  /\ InitFile
  /\ InitCalls
  /\ RunIdle
  /\ DefIdle

NextBoot ==
  \/ BootBrokers
  \/ BootCreateFile
  \/ BootCommitHash
  \/ BootCerts
  \/ BootKafka
  \/ Next

\* The construction of the Client and the produce() calls after it.
SpecBoot == InitBoot /\ [][NextBoot]_vars

(* ---------------------------- a failing disk --------------------------- *)

\* The texts a write of `text` that fails on the way can have added to the
\* file: its first characters, but not all of them.
TornTexts(text) == {SubSeq(text, 1, n) : n \in 1..(Len(text) - 1)}

\* _write_to_local(data), lines 112-117: the file is opened, and the disk
\* fills up while the text is written out (by write(), or by the flush of
\* close()): a part of the line has reached the file when IOError is raised;
\* False is returned and then produce() returns.
WriteLocalTorn(t) ==
  /\ ~Idle(t)
  /\ Top(t).fn = "produce" /\ Top(t).pc = "write"
  /\ \E part \in TornTexts(LineText(Top(t).data)) : spool' = spool \o part
  /\ exists' = TRUE
  /\ unwritten' = unwritten \cup {Top(t).data.id}
  /\ Return(t, 1)
  /\ UNCHANGED <<callers, producer, ncalls, arg, live, sends, order,
                 startSpool, pass, produced, delivered, startExists>>
  /\ UNCHANGED otherVars

\* _produce_from_local() line 124: json.loads(line) raises ValueError for a
\* line that is not one JSON document.  No except clause on the stack names
\* it: every frame is unwound, the file is closed without being truncated,
\* and the host's produce() call raises.
ReplayValueError(t) ==
  /\ ~Idle(t)
  /\ Top(t).fn = "replay" /\ Top(t).idx < Len(Top(t).lines)
  /\ ~IsJson(Top(t).lines[Top(t).idx + 1])
  /\ stack' = [stack EXCEPT ![t] = <<>>]
  /\ result' = [result EXCEPT ![t] = "raised"]
  /\ UNCHANGED <<callers, producer, exists, spool, ncalls, arg, live, sends,
                 order, startSpool, pass, produced, delivered, unwritten,
                 startExists>>
  /\ UNCHANGED otherVars

NextDisk ==
  \/ Next
  \/ \E t \in AllCallers :
       \/ WriteLocalTorn(t)
       \/ ReplayValueError(t)

\* The produce() calls of one thread on a disk that can fill up.
SpecDisk == Init /\ [][NextDisk]_vars

(* ---------------------------- two caller threads ----------------------- *)

\* _write_to_local(data), lines 112-113: the file is opened for appending and
\* offline.write(json.dumps(data)) reaches the file on its own, the text
\* having filled the buffer of the file object; the newline is still to be
\* written.
WriteLocalText(t) ==
  /\ ~Idle(t)
  /\ Top(t).fn = "produce" /\ Top(t).pc = "write"
  /\ spool' = spool \o JsonDumps(Top(t).data)
  /\ exists' = TRUE
  /\ stack' = [stack EXCEPT ![t] = SetTop(stack[t], [Top(t) EXCEPT !.pc = "newline"])]
  /\ UNCHANGED <<callers, producer, ncalls, arg, live, sends, order,
                 startSpool, result, pass, produced, delivered, unwritten,
                 startExists>>
  /\ UNCHANGED otherVars

\* _write_to_local(data), line 114: offline.write("\n") reaches the file, at
\* its end as it is now (mode "a"); the file is closed and produce() returns.
WriteLocalNewline(t) ==
  /\ ~Idle(t)
  /\ Top(t).fn = "produce" /\ Top(t).pc = "newline"
  /\ spool' = spool \o <<NewLine>>
  /\ Return(t, 1)
  /\ UNCHANGED <<callers, producer, exists, ncalls, arg, live, sends, order,
                 startSpool, pass, produced, delivered, unwritten,
                 startExists>>
  /\ UNCHANGED otherVars

\* A constructed Client shared by two threads of the host; produce() takes
\* no lock.
InitConc ==
  /\ callers = AllCallers
  /\ \/ producer = "KafkaProducer" /\ bootFailed = "none"
     \/ producer = "None" /\ bootFailed = "kafka"
  /\ boot = "done"
  /\ InitFile
  /\ InitCalls
  /\ RunIdle
  /\ DefIdle

NextConc ==
  \/ Next
  \/ \E t \in AllCallers :
       \/ WriteLocalText(t)
       \/ WriteLocalNewline(t)

\* The produce() calls of two threads, their steps interleaved.
SpecConc == InitConc /\ [][NextConc]_vars

(* ---------------------------- Runnable --------------------------------- *)

\* The generator functions run() can be: yielding no, one or two times, the
\* first yield with or without a value.
RunKinds ==
  { [yields |-> n, value |-> v] : n \in 0..2, v \in BOOLEAN } \
    { [yields |-> 0, value |-> TRUE] }

\* The parts of the body of run(): before its first yield, after it, and
\* after its second yield.
Segments == <<"setup", "teardown", "extra">>

\* The generator self.run() returns: nothing of its body has run yet.
FreshGen == [state |-> "suspended", pos |-> 0]

\* next(gen): a generator that has ended raises StopIteration at once; one
\* that has not runs the next part of its body, up to its next yield (the
\* value of the yield is returned) or to its end (StopIteration).
NextGen(gen) ==
  IF gen.state = "finished"
  THEN [gen |-> gen, ran |-> <<>>, outcome |-> "StopIteration"]
  ELSE IF gen.pos < rkind.yields
  THEN [gen |-> [state |-> "suspended", pos |-> gen.pos + 1],
        ran |-> <<Segments[gen.pos + 1]>>,
        outcome |-> IF gen.pos = 0 /\ rkind.value THEN "value" ELSE "None"]
  ELSE [gen |-> [state |-> "finished", pos |-> gen.pos],
        ran |-> <<Segments[gen.pos + 1]>>,
        outcome |-> "StopIteration"]

\* Mutant of is_running: it always answers False.
is_running_Never == FALSE

\* Runnable.is_running(), lines 164-166.
is_running == running # NoGen

\* Runnable.start(), lines 168-181: RuntimeError if running; else the
\* generator is made and kept in self._running, then advanced once;
\* TypeError if it ends or yields a value.
start ==
  /\ rops < MaxOps
  /\ rops' = rops + 1
  /\ IF is_running
     THEN /\ rlast' = [op |-> "start", outcome |-> "RuntimeError",
                       wasRunning |-> TRUE, ran |-> 0]
          /\ UNCHANGED <<running, rlog>>
     ELSE LET r == NextGen(FreshGen)
          IN /\ running' = r.gen
             /\ rlog' = rlog \o r.ran
             /\ rlast' = [op |-> "start",
                          outcome |-> IF r.outcome = "None" THEN "returned"
                                      ELSE "TypeError",
                          wasRunning |-> FALSE, ran |-> Len(r.ran)]
  /\ UNCHANGED <<rkind, coreVars, bootVars, defVars>>

\* Runnable.stop(), lines 183-197: RuntimeError if not running; else
\* self._running is set to None and the generator advanced once more;
\* TypeError unless it ends.
stop ==
  /\ rops < MaxOps
  /\ rops' = rops + 1
  /\ IF ~is_running
     THEN /\ rlast' = [op |-> "stop", outcome |-> "RuntimeError",
                       wasRunning |-> FALSE, ran |-> 0]
          /\ UNCHANGED <<running, rlog>>
     ELSE LET r == NextGen(running)
          IN /\ running' = NoGen
             /\ rlog' = rlog \o r.ran
             /\ rlast' = [op |-> "stop",
                          outcome |-> IF r.outcome = "StopIteration"
                                      THEN "returned" ELSE "TypeError",
                          wasRunning |-> TRUE, ran |-> Len(r.ran)]
  /\ UNCHANGED <<rkind, coreVars, bootVars, defVars>>

\* No Client has been constructed.
NoClient ==
  /\ callers = {}
  /\ producer = "None"
  /\ boot = "none"
  /\ bootFailed = "none"
  /\ exists = FALSE
  /\ spool = <<>>
  /\ InitCalls

\* A new instance of a subclass of Runnable with some run().
InitRunnable ==
  /\ rkind \in RunKinds
  /\ running = NoGen
  /\ rlog = <<>>
  /\ rlast = [op |-> "none", outcome |-> "none", wasRunning |-> FALSE, ran |-> 0]
  /\ rops = 0
  /\ NoClient
  /\ DefIdle

NextRunnable == start \/ stop

\* start() and stop() calls on one Runnable, in any order.
SpecRunnable == InitRunnable /\ [][NextRunnable]_vars

(* ---------------------------- deferral() ------------------------------- *)

\* "with deferral() as defer:" is entered, lines 311-315: the list is empty
\* and the body of the block begins.
deferral ==
  /\ dphase = "idle"
  /\ dphase' = "body"
  /\ UNCHANGED <<deferred, executed, dcount, dexit>>
  /\ UNCHANGED <<coreVars, bootVars, runVars>>

\* defer(func, ...), lines 312-313, called in the body of the block: the
\* call is put at the end of the list.  The function will return or raise
\* when it is called.
defer ==
  /\ dphase = "body"
  /\ dcount < MaxDefer
  /\ \E r \in BOOLEAN :
       deferred' = Append(deferred, [id |-> dcount + 1, raises |-> r])
  /\ dcount' = dcount + 1
  /\ UNCHANGED <<dphase, executed, dexit>>
  /\ UNCHANGED <<coreVars, bootVars, runVars>>

\* The body of the block ends, by reaching its end or by an exception: the
\* finally clause (line 316) begins.
BodyLeft ==
  /\ dphase = "body"
  /\ dphase' = "unwinding"
  /\ \E how \in {"returned", "raised"} :
       dexit' = [body |-> how, raised |-> IF how = "raised" THEN "body" ELSE "none"]
  /\ UNCHANGED <<deferred, executed, dcount>>
  /\ UNCHANGED <<coreVars, bootVars, runVars>>

\* Lines 317-319, one turn of the loop: the last call of the list is taken
\* off it and executed.  If it raises, its exception leaves the loop and the
\* with statement; the calls still in the list are not executed.
RunDeferred ==
  /\ dphase = "unwinding"
  /\ deferred # <<>>
  /\ LET call == deferred[Len(deferred)]
     IN /\ deferred' = SubSeq(deferred, 1, Len(deferred) - 1)
        /\ executed' = Append(executed, call.id)
        /\ IF call.raises
           THEN /\ dphase' = "left"
                /\ dexit' = [dexit EXCEPT !.raised = "deferred"]
           ELSE UNCHANGED <<dphase, dexit>>
  /\ UNCHANGED dcount
  /\ UNCHANGED <<coreVars, bootVars, runVars>>

\* Line 317: the list is empty, the loop and the with statement are over
\* (an exception of the body goes on to the caller).
DeferralExit ==
  /\ dphase = "unwinding"
  /\ deferred = <<>>
  /\ dphase' = "left"
  /\ UNCHANGED <<deferred, executed, dcount, dexit>>
  /\ UNCHANGED <<coreVars, bootVars, runVars>>

\* Before a with deferral() block.
InitDeferral ==
  /\ DefIdle
  /\ NoClient
  /\ RunIdle

NextDeferral ==
  \/ deferral
  \/ defer
  \/ BodyLeft
  \/ RunDeferred
  \/ DeferralExit

\* One with deferral() block.
SpecDeferral == InitDeferral /\ [][NextDeferral]_vars

(* ---------------------------- properties ------------------------------- *)

\* The lines of the spool file, now and when the call of t began.
SpoolLines == SplitLines(spool)
StartLines(t) == SplitLines(startSpool[t])

\* The ids of the records that are lines of a text.
Ids(text) ==
  LET lines == SplitLines(text)
  IN {JsonLoads(lines[i]).id : i \in {j \in 1..Len(lines) : IsJson(lines[j])}}
ProducedIds == {p.id : p \in produced}
AllIdle == \A t \in AllCallers : Idle(t)
Finished(t) == Idle(t) /\ result[t] \in {"returned", "raised"}
Replayed(t) == {e \in sends[t] : e.replay}

\* Position of id in the order of first send attempts of t's call (0: none).
Rank(t, id) ==
  IF \E i \in 1..Len(order[t]) : order[t][i] = id
  THEN CHOOSE i \in 1..Len(order[t]) : order[t][i] = id
  ELSE 0

\* C1 -- No data loss on delivery failure: with the channel up, whenever no
\* produce() call is in progress, every record that was passed to produce()
\* and whose spool write did not fail has been sent successfully at least
\* once or is a line of the spool.
Thm_C1_NoDataLoss ==
  (producer # "None" /\ AllIdle) =>
    \A id \in ProducedIds \ unwritten : id \in delivered \/ id \in Ids(spool)

\* C1 witness: a call has returned after its replay pass ran to its end, a
\* replayed send of a record failed in it, and that record, never delivered,
\* is still a line of the spool.
Wit_C1_KeptAfterFailedReplay ==
  \E t \in callers :
    /\ result[t] = "returned" /\ pass[t] = "ended"
    /\ \E e \in Replayed(t) :
         /\ ~e.ok
         /\ e.data.id \in ProducedIds \ (delivered \cup unwritten)
         /\ e.data.id \in Ids(spool)

\* C2 -- Idempotent truncation (as claimed): whenever the replay pass of a
\* produce() call has run to its end, the spool is empty.
CE_C2_SpoolEmptyAfterPass ==
  \A t \in AllCallers :
    (result[t] = "returned" /\ pass[t] = "ended") => spool = <<>>

\* C3 -- Termination (as claimed): a produce() call performs its live send
\* and at most one sweep over the spool, and returns: it never has two
\* replay passes in progress at once and never ends by raising.
CE_C3_OneSweepThenReturn ==
  \A t \in AllCallers :
    /\ Cardinality({i \in 1..Len(stack[t]) : stack[t][i].fn = "replay"}) <= 1
    /\ result[t] # "raised"

\* C4 -- Send failure falls back to spool-append: when a produce(record)
\* call of the host whose live send failed has returned, no replay pass ran
\* and no replayed send was attempted in it, and (the append not having
\* failed) the spool is the spool from before the call followed by exactly
\* one line holding that record.
Thm_C4_SendFailureAppends ==
  \A t \in AllCallers :
    (result[t] = "returned" /\ live[t] = "fail") =>
      /\ pass[t] = "none"
      /\ Replayed(t) = {}
      /\ Cardinality(sends[t]) = 1
      /\ arg[t].data.id \notin unwritten =>
           /\ SpoolLines = Append(StartLines(t), JsonDumps(arg[t].data))
           /\ spool = startSpool[t] \o LineText(arg[t].data)
           /\ JsonLoads(SpoolLines[Len(SpoolLines)]) = arg[t].data

\* C4 witness: such a call has returned with the record appended after the
\* lines an earlier call had left in the spool.
Wit_C4_AppendedAfterEarlierLines ==
  \E t \in callers :
    /\ result[t] = "returned" /\ live[t] = "fail"
    /\ startSpool[t] # <<>>
    /\ Len(SpoolLines) = Len(StartLines(t)) + 1
    /\ JsonLoads(SpoolLines[Len(SpoolLines)]).id = arg[t].data.id

\* C5 -- Order preservation (as claimed): when records A and then B had been
\* appended to the spool by two produce() calls and the next call's replay
\* pass has been started, then once that call is over a send was attempted
\* for both, for A before B.
CE_C5_ReplaySendsBothInOrder ==
  \A t \in AllCallers :
    (Finished(t) /\ pass[t] # "none" /\ Len(StartLines(t)) >= 2) =>
      LET a == JsonLoads(StartLines(t)[1]).id
          b == JsonLoads(StartLines(t)[2]).id
      IN (a # b /\ {a, b} \subseteq ProducedIds) =>
           /\ Rank(t, a) > 0 /\ Rank(t, b) > 0
           /\ Rank(t, a) < Rank(t, b)

\* C6 -- End-to-end recovery ordering (as claimed): with R the only spool
\* line, when the own send of a following produce(N) has succeeded, R has
\* already been sent: R is the first record of the call a send was attempted
\* for.
CE_C6_ReplayBeforeOwnSend ==
  \A t \in AllCallers :
    (live[t] = "ok" /\ Len(StartLines(t)) = 1) =>
      order[t][1] = JsonLoads(StartLines(t)[1]).id

\* C6 (amended) -- with R the only spool line, a produce(N) whose own send
\* succeeded and whose replay pass was started has, once it is over, sent N
\* first and R after it, every send of R on the topic of R's shape.
Thm_C6_OwnSendThenReplay ==
  \A t \in AllCallers :
    (Finished(t) /\ pass[t] # "none" /\ Len(StartLines(t)) = 1) =>
      LET R == JsonLoads(StartLines(t)[1])
      IN /\ order[t] = <<arg[t].data.id, R.id>>
         /\ \A e \in sends[t] : e.data.id = R.id =>
              /\ e.replay
              /\ e.topic = IF "stackTrace" \in DOMAIN R
                           THEN "event_topic" ELSE "prof_topic"

\* C6 witness: such a call is over, and R, an event record first produced on
\* the "log" channel, was sent successfully on the event topic.
Wit_C6_SpooledForwardedAfter ==
  \E t \in callers :
    /\ Finished(t) /\ pass[t] # "none" /\ Len(StartLines(t)) = 1
    /\ \E e \in sends[t] :
         /\ e.replay /\ e.ok
         /\ e.data = JsonLoads(StartLines(t)[1])
         /\ e.topic = "event_topic"
         /\ [id |-> e.data.id, type |-> "log"] \in produced

\* C7 -- Replay routing by shape: every send a replay pass makes goes to the
\* event topic if the record has the 'stackTrace' field and to the
\* monitoring topic otherwise, whatever channel it was first produced on.
Thm_C7_ReplayRoutingByShape ==
  \A t \in AllCallers : \A e \in Replayed(t) :
    e.topic = IF "stackTrace" \in DOMAIN e.data
              THEN producer_types["event"] ELSE producer_types["monitoring"]

\* C7 witness: one call replayed a metric record and an event record that
\* both were first produced on the "log" channel.
Wit_C7_LogRecordsReplayed ==
  \E t \in callers : \E e1, e2 \in Replayed(t) :
    /\ "stackTrace" \in DOMAIN e1.data /\ "stackTrace" \notin DOMAIN e2.data
    /\ [id |-> e1.data.id, type |-> "log"] \in produced
    /\ [id |-> e2.data.id, type |-> "log"] \in produced

\* C8 -- Channel-down no-op: with self.producer None no produce() call
\* raises, and when one has returned no send was attempted in it and the
\* spool is what it was when the call began.
Thm_C8_ChannelDownNoOp ==
  \A t \in AllCallers :
    producer = "None" =>
      /\ result[t] # "raised"
      /\ sends[t] = {} /\ live[t] = "none" /\ pass[t] = "none"
      /\ result[t] \in {"running", "returned"} => spool = startSpool[t]

\* C8 witness: with no producer a call has returned and the spool still
\* holds the line an earlier run left in it.
Wit_C8_ReturnedSpoolKept ==
  \E t \in callers :
    /\ producer = "None" /\ result[t] = "returned"
    /\ ncalls = MaxCalls
    /\ spool # <<>> /\ spool = startSpool[t]

\* C9 -- Replay failure is not re-spooled (as claimed): no write to the
\* spool happens during a replay pass: while a pass is in progress the spool
\* holds exactly the lines the pass read.
CE_C9_NoWriteDuringReplay ==
  \A t \in AllCallers : \A i \in 1..Len(stack[t]) :
    stack[t][i].fn = "replay" => SpoolLines = stack[t][i].lines

\* C10 -- produce() never raises to the host (as claimed).
CE_C10_NeverRaises ==
  \A t \in AllCallers : result[t] # "raised"

\* C11 -- Bootstrap failure is not fatal (as claimed): when the config
\* fetch, the certificate fetch or the construction of the broker client has
\* failed, Client() does not raise to the host, and once it is over
\* self.producer is None.
CE_C11_BootFailureNotFatal ==
  bootFailed \in {"brokers", "certs", "kafka"} =>
    /\ boot # "raised"
    /\ boot = "done" => producer = "None"

\* C12 -- Spool write failure is the terminal tier (as claimed): when a
\* produce() call of the host has returned whose live send failed and whose
\* append to the spool failed, the spool is what it was when the call began,
\* and the record was neither sent nor spooled.
CE_C12_WriteFailureLeavesSpool ==
  \A t \in AllCallers :
    (result[t] = "returned" /\ live[t] = "fail"
       /\ arg[t].data.id \in unwritten) =>
      /\ spool = startSpool[t]
      /\ arg[t].data.id \notin delivered
      /\ arg[t].data.id \notin Ids(spool)

\* C13 -- Unreadable spool means empty spool: when a produce() call of the
\* host has returned whose live send succeeded and whose replay pass could
\* not open or read the spool file, the call did not raise, its only send is
\* that live send, and the spool file is as it was when the call began: not
\* created if it was missing, its content unchanged if it was there.
Thm_C13_UnreadableSpoolNoOp ==
  \A t \in AllCallers :
    (Finished(t) /\ live[t] = "ok" /\ pass[t] = "none") =>
      /\ result[t] = "returned"
      /\ sends[t] = {[data |-> arg[t].data, topic |-> producer_types[arg[t].type],
                      ok |-> TRUE, replay |-> FALSE]}
      /\ exists = startExists[t]
      /\ spool = startSpool[t]

\* C13 witness: such a call has returned while the spool file does not exist,
\* and its record was delivered.
Wit_C13_MissingSpoolReturned ==
  \E t \in callers :
    /\ result[t] = "returned" /\ live[t] = "ok" /\ pass[t] = "none"
    /\ ~exists /\ ~startExists[t]
    /\ arg[t].data.id \in delivered

\* A call of t whose live send failed and whose append did not has returned.
Appended(t) ==
  /\ result[t] = "returned" /\ live[t] = "fail"
  /\ arg[t].data.id \notin unwritten

\* C14 -- Concurrent append safety (as claimed): when the produce() calls of
\* two threads, begun on the same spool, have both fallen back to the append
\* and returned, the spool is the spool from before the calls followed by
\* exactly two lines, one whole record each, in either order.
CE_C14_ConcurrentAppendsWholeLines ==
  \A t, u \in AllCallers :
    (t # u /\ Appended(t) /\ Appended(u) /\ startSpool[t] = startSpool[u]) =>
      \/ spool = startSpool[t] \o LineText(arg[t].data) \o LineText(arg[u].data)
      \/ spool = startSpool[t] \o LineText(arg[u].data) \o LineText(arg[t].data)

\* The ids of the records some replay pass of a call in progress, or of the
\* last call of a thread, read and attempted to send.
ReplayAttempted == {e.data.id : e \in UNION {Replayed(t) : t \in AllCallers}}

\* C15 -- Replay's read-then-truncate is atomic with respect to other
\* callers (as claimed): no step takes out of the spool a record that a
\* caller's produce() has appended to it, unless a replay pass read that
\* record and attempted to send it.
CE_C15_AppendSurvivesTruncate ==
  [][\A t \in AllCallers :
       LET id == arg[t].data.id
       IN (Appended(t) /\ id \in Ids(spool) /\ id \notin ReplayAttempted') =>
            id \in Ids(spool')]_vars

\* C16 -- The channel state is fixed once construction ends: no step taken
\* after Client() is over changes self.producer, and every produce() call of
\* the host that is over has attempted its live send exactly if the channel
\* is up (so after a failed send the next call sends again, and with the
\* channel down no call ever sends).
Thm_C16_ChannelFixedAfterBoot ==
  [][/\ boot = "done" => producer' = producer
     /\ \A t \in AllCallers :
          Finished(t)' => ((live'[t] # "none") <=> (producer' # "None"))]_vars

\* C16 witness: the first call's send failed and its record was spooled, and
\* the second call has attempted its live send, with success.
Wit_C16_SendAfterFailedSend ==
  \E t \in callers :
    /\ boot = "done" /\ producer = "KafkaProducer"
    /\ arg[t].data.id = 2 /\ live[t] = "ok"
    /\ 1 \in Ids(startSpool[t]) /\ 1 \in ProducedIds /\ 1 \notin delivered

\* C17 -- Runnable lifecycle alternation: with a run() that yields exactly
\* once without a value, a start() on a running instance and a stop() on a
\* not-running instance raise RuntimeError and run nothing of run(), every
\* other start() and stop() returns after running one part of it, and the
\* parts of run() executed so far are setup, teardown, setup, ... in strict
\* alternation, beginning with a setup.
Thm_C17_LifecycleAlternation ==
  rkind = Canonical =>
    /\ (rlast.op = "start" /\ rlast.wasRunning) =>
         (rlast.outcome = "RuntimeError" /\ rlast.ran = 0)
    /\ (rlast.op = "stop" /\ ~rlast.wasRunning) =>
         (rlast.outcome = "RuntimeError" /\ rlast.ran = 0)
    /\ (rlast.op = "start" /\ ~rlast.wasRunning) =>
         (rlast.outcome = "returned" /\ rlast.ran = 1)
    /\ (rlast.op = "stop" /\ rlast.wasRunning) =>
         (rlast.outcome = "returned" /\ rlast.ran = 1)
    /\ \A i \in 1..Len(rlog) :
         rlog[i] = IF i % 2 = 1 THEN "setup" ELSE "teardown"
    /\ is_running <=> (Len(rlog) % 2 = 1)

\* C17 witness: after start(), stop(), start() on a canonical Runnable a
\* further start() has raised RuntimeError.
Wit_C17_SecondStartRefused ==
  /\ rkind = Canonical
  /\ rlog = <<"setup", "teardown", "setup">>
  /\ rlast.op = "start" /\ rlast.outcome = "RuntimeError"

\* C18 -- No duplicate delivery (as claimed): no send succeeds for a record
\* passed to produce() that has been sent successfully before.
CE_C18_NoDuplicateDelivery ==
  [][\A t \in AllCallers :
       (SendOk(t) /\ Top(t).data.id \in ProducedIds) =>
         Top(t).data.id \notin delivered]_vars

\* C19 -- Runnable running-flag invariant (as claimed): whatever run() is,
\* after a start() that returned the instance is running, after a start()
\* that raised TypeError it is not running, after a start() that raised
\* RuntimeError it is running as before, and after any stop() it is not
\* running.
CE_C19_RunningFlag ==
  /\ (rlast.op = "start" /\ rlast.outcome = "returned") => is_running
  /\ (rlast.op = "start" /\ rlast.outcome = "TypeError") => ~is_running
  /\ (rlast.op = "start" /\ rlast.outcome = "RuntimeError") =>
       (is_running <=> rlast.wasRunning)
  /\ rlast.op = "stop" => ~is_running

\* The ids n, n-1, ..., 1: the calls registered, last registered first.
Countdown(n) == [i \in 1..n |-> n + 1 - i]

\* C20 -- deferral runs every deferred call exactly once in reverse order
\* (as claimed): no deferred call is executed while the body of the block
\* runs, and once the block has been left, by its end or by an exception of
\* its body, the calls executed are all the calls registered, each once,
\* last registered first.
CE_C20_AllDeferredRunReversed ==
  /\ dphase \in {"idle", "body"} => executed = <<>>
  /\ dphase = "left" => executed = Countdown(dcount)

====
